---- MODULE Spec2Model ----
(***************************************************************************)
(* The workshop scripts as state machines.  Each script is a straight-line *)
(* program: `pc` is the index of the statement about to run in             *)
(* Steps(script).  Calls into the external libraries (ase, metatrain,      *)
(* metatomic, torch, matplotlib) are modelled by their documented effect   *)
(* on the script's variables and on the file system; their numerical       *)
(* results are kept as terms over their ordered operands, so that two      *)
(* results are equal exactly when they were computed from the same         *)
(* operands in the same order.  Any library call may raise.                *)
(***************************************************************************)
EXTENDS Integers, Sequences, FiniteSets, TLC

VARIABLES
    script,            \* which script the process runs
    status,            \* "running" | "done" | "failed"
    pc,                \* index into Steps(script)
    trace,             \* statements completed so far in this run (history)
    runNo,             \* 1 for the first run, 2 for the re-run
    fs,                \* file system: path -> content
    args,              \* parsed command line
    model,             \* in-memory model returned by load_model
    ethanol_frames,    \* ase.io.read result
    DFT_energies, PET_energies, loop_i, err_true,
    ethanol_systems,   \* read_systems result (then with neighbor lists)
    targets, dataset, dataloader,
    llpr_model,        \* LLPRUncertaintyModel state
    exported_model,    \* has AtomisticModel(llpr_model.eval(), ...) been built
    ethanol_dataset, lpr,
    figure,            \* in-memory matplotlib figure
    prevLpr,           \* lpr of the first run, kept for comparison on re-run
    heap,              \* ase.Atoms objects by identity (generate.py, optimize.py)
    all_structures,    \* list of references into heap
    dyn,               \* the Langevin / LBFGS driver
    predictions, e_targets, e_predictions, idx,   \* parity_plot.py
    data               \* plot_energy.py: the array read from thermo.out

vars_run == <<script, status, pc, trace, runNo, fs, args>>
vars_uq == <<model, ethanol_frames, DFT_energies, PET_energies, loop_i, err_true,
             ethanol_systems, targets, dataset, dataloader, llpr_model,
             exported_model, ethanol_dataset, lpr, figure, prevLpr>>
vars_md == <<heap, all_structures, dyn>>
vars_pp == <<predictions, e_targets, e_predictions, idx, data>>
vars_other == <<vars_md, vars_pp>>
vars == <<vars_run, vars_uq, vars_other>>

(* ------------------------------ bounds -------------------------------- *)
MaxFrames == 2
Geoms == {1, 3}
Energies == {0, 5}
Weights == {1, 2}

(* ------------------------------ helpers ------------------------------- *)
Abs(x) == IF x < 0 THEN -x ELSE x
SeqsUpTo(S, n) == UNION {[1..k -> S] : k \in 0..n}
Min(a, b) == IF a < b THEN a ELSE b

(* ----------------------------- file system ---------------------------- *)
Absent == [kind |-> "absent"]
ModelFile(w) == [kind |-> "model", weights |-> w]
XyzFile(fr) == [kind |-> "xyz", frames |-> fr]
PngFile(pts) == [kind |-> "png", points |-> pts]

LLPRFigurePath == "ethanol_llpr_vs_true_error.png"
DefaultModelPath == "model-pet.pt"
DefaultUQFigure == "ethanol_uq_vs_error.png"
UserPng == "custom.png"
LLPRSystemsPath == "ethanol_reduced_100.xyz"
UQSystemsPath == "../../data/ethanol_reduced_100.xyz"

WaterPath == "water.xyz"
ParityTargetsPath == "../data/ethanol_reduced_100.xyz"
ParityPredictionsPath == "./output.xyz"
TrainIdxPath == "./outputs/2025-06-11/23-20-20/indices/training.txt"
ValIdxPath == "./outputs/2025-06-11/23-20-20/indices/validation.txt"
TestIdxPath == "./outputs/2025-06-11/23-20-20/indices/test.txt"
ParityFigurePath == "parity_plot.png"
ThermoPath == "thermo.out"
ThermoFigurePath == "thermo.png"
PetMadPath == "pet-mad-latest.pt"

Paths == {LLPRFigurePath, DefaultModelPath, DefaultUQFigure, UserPng,
          LLPRSystemsPath, UQSystemsPath, WaterPath,
          ParityTargetsPath, ParityPredictionsPath, TrainIdxPath, ValIdxPath,
          TestIdxPath, ParityFigurePath, ThermoPath, ThermoFigurePath, PetMadPath}

TxtFile(rows) == [kind |-> "txt", rows |-> rows]
TableFile(r, c) == [kind |-> "table", rows |-> r, cols |-> c]

\* File name extension, as matplotlib's savefig reads it off the name.
Ext(p) == CASE p \in {LLPRFigurePath, DefaultUQFigure, UserPng,
                        ParityFigurePath, ThermoFigurePath} -> "png"
            [] p \in {DefaultModelPath, PetMadPath} -> "pt"
            [] p \in {TrainIdxPath, ValIdxPath, TestIdxPath} -> "txt"
            [] p = ThermoPath -> "out"
            [] OTHER -> "xyz"

\* Formats the figure canvas can print; any other extension makes savefig
\* raise before the file is opened.
SavefigSupports(p) == Ext(p) \in {"png", "pdf", "svg"}

(* ------------------------------ scripts ------------------------------- *)
LLPRScripts == {"llpr", "uq"}

\* Statement order of training-custom-models/UQ/llpr.py
StepsLLPR == <<"load_model", "read_frames", "dft_energies", "predict_loop",
               "err_true", "read_systems", "read_targets", "neighbor_lists",
               "dataset", "ethanol_dataset", "dataloader", "wrap",
               "compute_covariance", "compute_inverse_covariance", "calibrate",
               "export", "to_dtype", "evaluate", "plot", "savefig", "show">>

\* uq.py with the evaluation of the wrapped model moved ahead of calibrate.
StepsUQEvaluateEarly ==
    <<"load_model", "read_frames", "dft_energies", "predict_loop",
      "err_true", "read_systems", "neighbor_lists", "read_targets",
      "dataset", "dataloader", "wrap",
      "compute_covariance", "compute_inverse_covariance",
      "export", "ethanol_dataset", "to_dtype", "evaluate", "calibrate", "plot",
      "savefig">>

\* Statement order of training-custom-models/part-2-pet/uq.py
StepsUQ == <<"load_model", "read_frames", "dft_energies", "predict_loop",
             "err_true", "read_systems", "neighbor_lists", "read_targets",
             "dataset", "dataloader", "wrap",
             "compute_covariance", "compute_inverse_covariance", "calibrate",
             "export", "ethanol_dataset", "to_dtype", "evaluate", "plot",
             "savefig">>

\* Statement order of metatrain-presentation/data/generate.py
StepsGenerate == <<"md_build_water", "md_make_calculator", "md_set_calc",
                   "md_langevin", "md_attach", "md_run", "md_post_loop", "md_write">>

\* parity_plot.py with the figure saved before the axes are decorated.
StepsParitySaveEarly ==
    <<"pp_read_targets", "pp_read_predictions", "pp_e_targets",
      "pp_e_predictions", "pp_load_train", "pp_load_val", "pp_load_test",
      "pp_subplots", "pp_scatter_loop", "pp_savefig", "pp_decorate">>

\* Statement order of training-custom-models/part-1-gap/parity_plot.py
StepsParity == <<"pp_read_targets", "pp_read_predictions", "pp_e_targets",
                 "pp_e_predictions", "pp_load_train", "pp_load_val", "pp_load_test",
                 "pp_subplots", "pp_scatter_loop", "pp_decorate", "pp_savefig">>

\* Statement order of training-custom-models/part-2-pet/plot_energy.py
StepsPlotEnergy == <<"pe_loadtxt", "pe_subplots", "pe_plot_loop", "pe_legend",
                     "pe_savefig">>

\* Statement order of metatrain-presentation/export/optimize.py
StepsOptimize == <<"opt_build_water", "opt_make_calculator", "opt_set_calc",
                   "opt_lbfgs", "opt_run">>

Steps(s) == CASE s = "llpr" -> StepsLLPR
              [] s = "uq" -> StepsUQ
              [] s = "generate" -> StepsGenerate
              [] s = "parity_plot" -> StepsParity
              [] s = "plot_energy" -> StepsPlotEnergy
              [] s = "optimize" -> StepsOptimize

SystemsPath(s) == IF s = "llpr" THEN LLPRSystemsPath ELSE UQSystemsPath

\* regularizer= argument of compute_inverse_covariance
Regularizer(s) == IF s = "llpr" THEN "1e-4" ELSE "1e-12"

\* DataLoader(dataset, batch_size=10, shuffle=False, collate_fn=collate_fn)
BatchSize == 10
ShuffleOn == TRUE
Shuffle == FALSE

At(name) == /\ status = "running"
            /\ pc <= Len(Steps(script))
            /\ Steps(script)[pc] = name

\* The statement completed: move to the next one, or finish.
Advance == /\ pc' = pc + 1
           /\ trace' = Append(trace, Steps(script)[pc])
           /\ status' = IF pc + 1 > Len(Steps(script)) THEN "done" ELSE "running"
           /\ UNCHANGED <<script, runNo, args>>

\* The statement raised: the interpreter unwinds and exits.
Abort == /\ status' = "failed"
         /\ UNCHANGED <<script, pc, trace, runNo, args>>

(* -------------------- the opaque model and LLPR terms ------------------ *)
\* Energy the pretrained model with weights w predicts for geometry g.
Energy(w, g) == w * g
\* Last-layer features of geometry g under weights w.
Features(w, g) == [w |-> w, g |-> g]

EmptyLLPR == [wrapped |-> FALSE, weights |-> 0,
              covariance |-> <<>>, covariance_computed |-> FALSE,
              inv_covariance |-> [cov |-> <<>>, regularizer |-> ""],
              inv_covariance_computed |-> FALSE,
              alpha |-> <<>>, is_calibrated |-> FALSE]

\* Consecutive chunks of at most n elements.
RECURSIVE Chunks(_, _)
Chunks(s, n) == IF Len(s) = 0 THEN <<>>
                ELSE <<SubSeq(s, 1, Min(n, Len(s)))>>
                     \o Chunks(SubSeq(s, Min(n, Len(s)) + 1, Len(s)), n)

Perms(s) == {[i \in 1..Len(s) |-> s[p[i]]] :
               p \in {q \in [1..Len(s) -> 1..Len(s)] :
                        \A a, b \in 1..Len(s) : a # b => q[a] # q[b]}}

\* The batch sequences one pass over the loader can yield.
LoaderPasses(dl) == IF dl.shuffle
                    THEN {Chunks(p, dl.batch_size) : p \in Perms(dl.dataset)}
                    ELSE {Chunks(dl.dataset, dl.batch_size)}

\* Uncertainty term of one system under an LLPR model state.
Uncertainty(m, sys) == [frame |-> sys.frame,
                        feat |-> Features(m.weights, sys.geom),
                        inv |-> m.inv_covariance,
                        alpha |-> m.alpha,
                        calibrated |-> m.is_calibrated]

\* get_system_with_neighbor_lists over a list of systems, in list order.
WithNeighborLists(systems) ==
    [i \in 1..Len(systems) |-> [systems[i] EXCEPT !.nl = TRUE]]

(* ------------------------- llpr.py and uq.py --------------------------- *)
UQInit ==
    /\ model = 0
    /\ ethanol_frames = <<>>
    /\ DFT_energies = <<>>
    /\ PET_energies = <<>>
    /\ loop_i = 1
    /\ err_true = <<>>
    /\ ethanol_systems = <<>>
    /\ targets = <<>>
    /\ dataset = <<>>
    /\ dataloader = [dataset |-> <<>>, batch_size |-> 0, shuffle |-> FALSE]
    /\ llpr_model = EmptyLLPR
    /\ exported_model = FALSE
    /\ ethanol_dataset = <<>>
    /\ lpr = <<>>
    /\ figure = <<>>

\* model = load_model(model_path)
LoadModel ==
    /\ At("load_model")
    /\ UNCHANGED vars_other
    /\ IF fs[args.model_path].kind = "model"
       THEN /\ model' = fs[args.model_path].weights
            /\ Advance
       ELSE /\ Abort
            /\ UNCHANGED model
    /\ UNCHANGED <<fs, ethanol_frames, DFT_energies, PET_energies, loop_i, err_true,
                   ethanol_systems, targets, dataset, dataloader, llpr_model,
                   exported_model, ethanol_dataset, lpr, figure, prevLpr>>

\* ethanol_systems = ase.io.read(path, ':', format='extxyz')
ReadFrames ==
    /\ At("read_frames")
    /\ UNCHANGED vars_other
    /\ LET f == fs[SystemsPath(script)] IN
       IF f.kind = "xyz"
       THEN /\ ethanol_frames' = [i \in 1..Len(f.frames) |->
                                    [frame |-> i, geom |-> f.frames[i].geom,
                                     energy |-> f.frames[i].energy]]
            /\ Advance
       ELSE /\ Abort
            /\ UNCHANGED ethanol_frames
    /\ UNCHANGED <<fs, model, DFT_energies, PET_energies, loop_i, err_true,
                   ethanol_systems, targets, dataset, dataloader, llpr_model,
                   exported_model, ethanol_dataset, lpr, figure, prevLpr>>

\* DFT_energies = np.array([i.get_potential_energy() for i in ethanol_systems])
DftEnergies ==
    /\ At("dft_energies")
    /\ UNCHANGED vars_other
    /\ DFT_energies' = [i \in 1..Len(ethanol_frames) |->
                          [frame |-> ethanol_frames[i].frame,
                           value |-> ethanol_frames[i].energy]]
    /\ Advance
    /\ UNCHANGED <<fs, model, ethanol_frames, PET_energies, loop_i, err_true,
                   ethanol_systems, targets, dataset, dataloader, llpr_model,
                   exported_model, ethanol_dataset, lpr, figure, prevLpr>>

\* Body of the prediction loop: atoms.get_potential_energy() is evaluated twice
\* and the second value is appended, once.
AppendPredictionTwice(acc, atoms, w) ==
    acc \o <<[frame |-> atoms.frame, value |-> Energy(w, atoms.geom)],
             [frame |-> atoms.frame, value |-> Energy(w, atoms.geom)]>>

AppendPrediction(acc, atoms, w) ==
    Append(acc, [frame |-> atoms.frame, value |-> Energy(w, atoms.geom)])

\* One iteration of `for atoms in ethanol_systems`: a calculator is built from
\* the file at model_path and its energy for the frame is appended.
PredictIter ==
    /\ At("predict_loop")
    /\ UNCHANGED vars_other
    /\ loop_i <= Len(ethanol_frames)
    /\ IF fs[args.model_path].kind = "model"
       THEN /\ PET_energies' = AppendPrediction(PET_energies,
                                                 ethanol_frames[loop_i],
                                                 fs[args.model_path].weights)
            /\ loop_i' = loop_i + 1
            /\ UNCHANGED <<script, status, pc, trace, runNo, args>>
       ELSE /\ Abort
            /\ UNCHANGED <<PET_energies, loop_i>>
    /\ UNCHANGED <<fs, model, ethanol_frames, DFT_energies, err_true,
                   ethanol_systems, targets, dataset, dataloader, llpr_model,
                   exported_model, ethanol_dataset, lpr, figure, prevLpr>>

\* The loop is exhausted; PET_energies = np.array(PET_energies)
PredictEnd ==
    /\ At("predict_loop")
    /\ UNCHANGED vars_other
    /\ loop_i > Len(ethanol_frames)
    /\ Advance
    /\ UNCHANGED <<fs, vars_uq>>

\* err_true = np.abs(DFT_energies - PET_energies)
ErrTrue ==
    /\ At("err_true")
    /\ UNCHANGED vars_other
    /\ IF Len(DFT_energies) = Len(PET_energies)
       THEN /\ err_true' = [i \in 1..Len(DFT_energies) |->
                              [frames |-> {DFT_energies[i].frame, PET_energies[i].frame},
                               value |-> Abs(DFT_energies[i].value - PET_energies[i].value)]]
            /\ Advance
       ELSE /\ Abort
            /\ UNCHANGED err_true
    /\ UNCHANGED <<fs, model, ethanol_frames, DFT_energies, PET_energies, loop_i,
                   ethanol_systems, targets, dataset, dataloader, llpr_model,
                   exported_model, ethanol_dataset, lpr, figure, prevLpr>>

\* ethanol_systems = read_systems(path)
ReadSystems ==
    /\ At("read_systems")
    /\ UNCHANGED vars_other
    /\ LET f == fs[SystemsPath(script)] IN
       IF f.kind = "xyz"
       THEN /\ ethanol_systems' = [i \in 1..Len(f.frames) |->
                                     [frame |-> i, geom |-> f.frames[i].geom,
                                      nl |-> FALSE, cast |-> FALSE]]
            /\ Advance
       ELSE /\ Abort
            /\ UNCHANGED ethanol_systems
    /\ UNCHANGED <<fs, model, ethanol_frames, DFT_energies, PET_energies, loop_i, err_true,
                   targets, dataset, dataloader, llpr_model,
                   exported_model, ethanol_dataset, lpr, figure, prevLpr>>

\* targets, _ = read_targets(target_config)
ReadTargets ==
    /\ At("read_targets")
    /\ UNCHANGED vars_other
    /\ LET f == fs[SystemsPath(script)] IN
       IF f.kind = "xyz"
       THEN /\ targets' = [i \in 1..Len(f.frames) |->
                             [frame |-> i, energy |-> f.frames[i].energy]]
            /\ Advance
       ELSE /\ Abort
            /\ UNCHANGED targets
    /\ UNCHANGED <<fs, model, ethanol_frames, DFT_energies, PET_energies, loop_i, err_true,
                   ethanol_systems, dataset, dataloader, llpr_model,
                   exported_model, ethanol_dataset, lpr, figure, prevLpr>>

\* ethanol_systems = [get_system_with_neighbor_lists(s, nl) for s in ethanol_systems]
NeighborLists ==
    /\ At("neighbor_lists")
    /\ UNCHANGED vars_other
    /\ ethanol_systems' = WithNeighborLists(ethanol_systems)
    /\ Advance
    /\ UNCHANGED <<fs, model, ethanol_frames, DFT_energies, PET_energies, loop_i, err_true,
                   targets, dataset, dataloader, llpr_model,
                   exported_model, ethanol_dataset, lpr, figure, prevLpr>>

\* dataset = Dataset.from_dict({"system": ethanol_systems, **targets})
MakeDataset ==
    /\ At("dataset")
    /\ UNCHANGED vars_other
    /\ IF Len(ethanol_systems) = Len(targets)
       THEN /\ dataset' = [i \in 1..Len(ethanol_systems) |->
                             [system |-> ethanol_systems[i], energy |-> targets[i].energy]]
            /\ Advance
       ELSE /\ Abort
            /\ UNCHANGED dataset
    /\ UNCHANGED <<fs, model, ethanol_frames, DFT_energies, PET_energies, loop_i, err_true,
                   ethanol_systems, targets, dataloader, llpr_model,
                   exported_model, ethanol_dataset, lpr, figure, prevLpr>>

\* ethanol_dataset = [get_system_with_neighbor_lists(i, nl) for i in ethanol_systems]
MakeEthanolDataset ==
    /\ At("ethanol_dataset")
    /\ UNCHANGED vars_other
    /\ ethanol_dataset' = WithNeighborLists(ethanol_systems)
    /\ Advance
    /\ UNCHANGED <<fs, model, ethanol_frames, DFT_energies, PET_energies, loop_i, err_true,
                   ethanol_systems, targets, dataset, dataloader, llpr_model,
                   exported_model, lpr, figure, prevLpr>>

\* dataloader = torch.utils.data.DataLoader(dataset, batch_size=10, shuffle=False, ...)
MakeDataloader ==
    /\ At("dataloader")
    /\ UNCHANGED vars_other
    /\ dataloader' = [dataset |-> dataset, batch_size |-> BatchSize, shuffle |-> Shuffle]
    /\ Advance
    /\ UNCHANGED <<fs, model, ethanol_frames, DFT_energies, PET_energies, loop_i, err_true,
                   ethanol_systems, targets, dataset, llpr_model,
                   exported_model, ethanol_dataset, lpr, figure, prevLpr>>

\* llpr_model = LLPRUncertaintyModel(model)
Wrap ==
    /\ At("wrap")
    /\ UNCHANGED vars_other
    /\ llpr_model' = [EmptyLLPR EXCEPT !.wrapped = TRUE, !.weights = model]
    /\ Advance
    /\ UNCHANGED <<fs, model, ethanol_frames, DFT_energies, PET_energies, loop_i, err_true,
                   ethanol_systems, targets, dataset, dataloader,
                   exported_model, ethanol_dataset, lpr, figure, prevLpr>>

\* llpr_model.compute_covariance(dataloader): one pass over the loader, the
\* feature outer products added batch by batch in the order the loader yields.
ComputeCovariance ==
    /\ At("compute_covariance")
    /\ UNCHANGED vars_other
    /\ \E pass \in LoaderPasses(dataloader) :
         llpr_model' = [llpr_model EXCEPT
            !.covariance = [b \in 1..Len(pass) |->
                              [k \in 1..Len(pass[b]) |->
                                 Features(llpr_model.weights, pass[b][k].system.geom)]],
            !.covariance_computed = TRUE]
    /\ Advance
    /\ UNCHANGED <<fs, model, ethanol_frames, DFT_energies, PET_energies, loop_i, err_true,
                   ethanol_systems, targets, dataset, dataloader,
                   exported_model, ethanol_dataset, lpr, figure, prevLpr>>

\* llpr_model.compute_inverse_covariance(regularizer=...)
ComputeInverseCovariance ==
    /\ At("compute_inverse_covariance")
    /\ UNCHANGED vars_other
    /\ llpr_model' = [llpr_model EXCEPT
            !.inv_covariance = [cov |-> llpr_model.covariance,
                                regularizer |-> Regularizer(script)],
            !.inv_covariance_computed = TRUE]
    /\ Advance
    /\ UNCHANGED <<fs, model, ethanol_frames, DFT_energies, PET_energies, loop_i, err_true,
                   ethanol_systems, targets, dataset, dataloader,
                   exported_model, ethanol_dataset, lpr, figure, prevLpr>>

\* llpr_model.calibrate(dataloader): a second pass over the loader; the scale
\* factor is computed from the residuals and the uncalibrated uncertainties.
\* The wrapped model's forward raises when the inverse covariance is missing.
Calibrate ==
    /\ At("calibrate")
    /\ UNCHANGED vars_other
    /\ IF llpr_model.inv_covariance_computed
       THEN /\ \E pass \in LoaderPasses(dataloader) :
                 llpr_model' = [llpr_model EXCEPT
                    !.alpha = [b \in 1..Len(pass) |->
                                 [k \in 1..Len(pass[b]) |->
                                    [pred |-> Energy(llpr_model.weights,
                                                     pass[b][k].system.geom),
                                     target |-> pass[b][k].energy,
                                     feat |-> Features(llpr_model.weights,
                                                       pass[b][k].system.geom)]]],
                    !.is_calibrated = TRUE]
            /\ Advance
       ELSE /\ Abort
            /\ UNCHANGED llpr_model
    /\ UNCHANGED <<fs, model, ethanol_frames, DFT_energies, PET_energies, loop_i, err_true,
                   ethanol_systems, targets, dataset, dataloader,
                   exported_model, ethanol_dataset, lpr, figure, prevLpr>>

\* exported_model = AtomisticModel(llpr_model.eval(), ModelMetadata(), ...)
Export ==
    /\ At("export")
    /\ UNCHANGED vars_other
    /\ exported_model' = TRUE
    /\ Advance
    /\ UNCHANGED <<fs, model, ethanol_frames, DFT_energies, PET_energies, loop_i, err_true,
                   ethanol_systems, targets, dataset, dataloader, llpr_model,
                   ethanol_dataset, lpr, figure, prevLpr>>

\* ethanol_dataset = [s.to(model_dtype) for s in ethanol_dataset]
ToDtype ==
    /\ At("to_dtype")
    /\ UNCHANGED vars_other
    /\ ethanol_dataset' = [i \in 1..Len(ethanol_dataset) |->
                             [ethanol_dataset[i] EXCEPT !.cast = TRUE]]
    /\ Advance
    /\ UNCHANGED <<fs, model, ethanol_frames, DFT_energies, PET_energies, loop_i, err_true,
                   ethanol_systems, targets, dataset, dataloader, llpr_model,
                   exported_model, lpr, figure, prevLpr>>

\* Rows of the "mtt::aux::energy_uncertainty" block for a list of systems.
EvaluateRowsFirstOnly(m, systems) ==
    [i \in 1..Min(1, Len(systems)) |-> Uncertainty(m, systems[i])]

EvaluateRowsReversed(m, systems) ==
    [i \in 1..Len(systems) |-> Uncertainty(m, systems[Len(systems) + 1 - i])]

EvaluateRows(m, systems) ==
    [i \in 1..Len(systems) |-> Uncertainty(m, systems[i])]

\* outputs = exported_model(ethanol_dataset, evaluation_options, ...)
\* lpr = outputs["mtt::aux::energy_uncertainty"].block().values...
\* With per_atom=False the block has one row per system, in list order.
Evaluate ==
    /\ At("evaluate")
    /\ UNCHANGED vars_other
    /\ IF exported_model /\ llpr_model.inv_covariance_computed
       THEN /\ lpr' = EvaluateRows(llpr_model, ethanol_dataset)
            /\ Advance
       ELSE /\ Abort
            /\ UNCHANGED lpr
    /\ UNCHANGED <<fs, model, ethanol_frames, DFT_energies, PET_energies, loop_i, err_true,
                   ethanol_systems, targets, dataset, dataloader, llpr_model,
                   exported_model, ethanol_dataset, figure, prevLpr>>

\* plt.loglog(err_true, np.sqrt(lpr), ...) / ax.scatter(err_true, np.sqrt(lpr)):
\* point i pairs err_true[i] with sqrt(lpr[i]); unequal lengths raise.
Plot ==
    /\ At("plot")
    /\ UNCHANGED vars_other
    /\ IF Len(err_true) = Len(lpr)
       THEN /\ figure' = [i \in 1..Len(err_true) |->
                            [x |-> err_true[i], y |-> [sqrt_of |-> lpr[i]]]]
            /\ Advance
       ELSE /\ Abort
            /\ UNCHANGED figure
    /\ UNCHANGED <<fs, model, ethanol_frames, DFT_energies, PET_energies, loop_i, err_true,
                   ethanol_systems, targets, dataset, dataloader, llpr_model,
                   exported_model, ethanol_dataset, lpr, prevLpr>>

\* plt.savefig(path, dpi=300): the file at path is created or replaced.
SavefigTo(path) ==
    /\ At("savefig")
    /\ UNCHANGED vars_other
    /\ IF SavefigSupports(path)
       THEN /\ fs' = [fs EXCEPT ![path] = PngFile(figure)]
            /\ Advance
       ELSE /\ Abort
            /\ UNCHANGED fs
    /\ UNCHANGED vars_uq

SavefigOverModel == SavefigTo(args.model_path)

Savefig == SavefigTo(args.output_figure)

\* plt.show()
Show ==
    /\ At("show")
    /\ UNCHANGED vars_other
    /\ Advance
    /\ UNCHANGED <<fs, vars_uq>>

\* Any statement may raise inside the library it calls; nothing catches it.
Raise ==
    /\ status = "running"
    /\ Abort
    /\ UNCHANGED <<fs, vars_uq, vars_other>>

\* The user runs the same script again with the same command line.
Rerun ==
    /\ status = "done"
    /\ runNo = 1
    /\ script \in LLPRScripts
    /\ runNo' = 2
    /\ prevLpr' = lpr
    /\ status' = "running"
    /\ pc' = 1
    /\ trace' = <<>>
    /\ model' = 0
    /\ ethanol_frames' = <<>>
    /\ DFT_energies' = <<>>
    /\ PET_energies' = <<>>
    /\ loop_i' = 1
    /\ err_true' = <<>>
    /\ ethanol_systems' = <<>>
    /\ targets' = <<>>
    /\ dataset' = <<>>
    /\ dataloader' = [dataset |-> <<>>, batch_size |-> 0, shuffle |-> FALSE]
    /\ llpr_model' = EmptyLLPR
    /\ exported_model' = FALSE
    /\ ethanol_dataset' = <<>>
    /\ lpr' = <<>>
    /\ figure' = <<>>
    /\ UNCHANGED <<script, fs, args, vars_other>>

(* ------------------------------ generate.py ---------------------------- *)
\* dyn.attach(append_structure, interval=1000); dyn.run(10000)
Interval == 1000
RunSteps == 10000

Water == 1      \* heap reference of the object bound to `water`

NoDyn == [nsteps |-> 0, max_steps |-> 0, observers |-> <<>>, running |-> FALSE]

\* ase.build.molecule('H2O'): positions are identified by the number of the
\* dynamics step that produced them (0: the built geometry).
NewWater == [positions |-> 0, has_momenta |-> FALSE, momenta |-> 0, calc |-> "none"]

\* Atoms.copy(): a new object with copies of the arrays and no calculator.
CopyAtoms(a) == [a EXCEPT !.calc = "none"]

\* all_structures.append(water): the live object itself is recorded.
AppendStructureNoCopy(h, lst) == [heap |-> h, list |-> Append(lst, Water)]

\* append_structure(): all_structures.append(water.copy()).  The result is the
\* heap and the list after the call.
AppendStructure(h, lst) ==
    [heap |-> Append(h, CopyAtoms(h[Water])), list |-> Append(lst, Len(h) + 1)]

\* The observer called at every step, whatever its interval.
CallObserversEveryStep(d, h, lst) ==
    IF Len(d.observers) = 1 THEN AppendStructure(h, lst)
    ELSE [heap |-> h, list |-> lst]

\* Dynamics.call_observers(): each attached function whose interval divides
\* the step counter is called (a single observer is ever attached).
CallObservers(d, h, lst) ==
    IF /\ Len(d.observers) = 1
       /\ d.nsteps % d.observers[1].interval = 0
    THEN AppendStructure(h, lst)
    ELSE [heap |-> h, list |-> lst]

\* all_structures[1:]
Written(lst) == Tail(lst)

MdBuildWater ==
    /\ script = "generate" /\ At("md_build_water")
    /\ heap' = <<NewWater>>
    /\ Advance
    /\ UNCHANGED <<fs, vars_uq, vars_pp, all_structures, dyn>>

\* calculator = PETMADCalculator("latest")
MdMakeCalculator ==
    /\ script = "generate" /\ At("md_make_calculator")
    /\ Advance
    /\ UNCHANGED <<fs, vars_uq, vars_other>>

\* water.calc = calculator
MdSetCalc ==
    /\ script = "generate" /\ At("md_set_calc")
    /\ heap' = [heap EXCEPT ![Water].calc = "calculator"]
    /\ Advance
    /\ UNCHANGED <<fs, vars_uq, vars_pp, all_structures, dyn>>

\* dyn = Langevin(water, ...): the constructor gives the atoms a zero momenta
\* array when they have none.
MdLangevin ==
    /\ script = "generate" /\ At("md_langevin")
    /\ heap' = [heap EXCEPT ![Water].has_momenta = TRUE]
    /\ dyn' = NoDyn
    /\ Advance
    /\ UNCHANGED <<fs, vars_uq, vars_pp, all_structures>>

\* all_structures = []; dyn.attach(append_structure, interval=1000)
MdAttach ==
    /\ script = "generate" /\ At("md_attach")
    /\ all_structures' = <<>>
    /\ dyn' = [dyn EXCEPT !.observers =
                 Append(@, [fn |-> "append_structure", interval |-> Interval])]
    /\ Advance
    /\ UNCHANGED <<fs, vars_uq, vars_pp, heap>>

\* dyn.run(10000), entry: max_steps is set and, the step counter being 0, the
\* observers are called once before the first step.
MdRunStart ==
    /\ script = "generate" /\ At("md_run")
    /\ ~dyn.running
    /\ LET d == [dyn EXCEPT !.max_steps = dyn.nsteps + RunSteps, !.running = TRUE]
           r == IF d.nsteps = 0 THEN CallObservers(d, heap, all_structures)
                ELSE [heap |-> heap, list |-> all_structures]
       IN /\ dyn' = d
          /\ heap' = r.heap
          /\ all_structures' = r.list
    /\ UNCHANGED <<vars_run, vars_uq, vars_pp>>

\* One iteration of the run loop: the integrator moves the atoms of `water` in
\* place, the step counter is incremented, the observers are called.
MdRunStep ==
    /\ script = "generate" /\ At("md_run")
    /\ dyn.running
    /\ dyn.nsteps < dyn.max_steps
    /\ LET d == [dyn EXCEPT !.nsteps = dyn.nsteps + 1]
           h == [heap EXCEPT ![Water].positions = d.nsteps,
                             ![Water].momenta = d.nsteps]
           r == CallObservers(d, h, all_structures)
       IN /\ dyn' = d
          /\ heap' = r.heap
          /\ all_structures' = r.list
    /\ UNCHANGED <<vars_run, vars_uq, vars_pp>>

\* The step counter has reached max_steps: run() returns.
MdRunEnd ==
    /\ script = "generate" /\ At("md_run")
    /\ dyn.running
    /\ dyn.nsteps >= dyn.max_steps
    /\ dyn' = [dyn EXCEPT !.running = FALSE]
    /\ loop_i' = 1
    /\ Advance
    /\ UNCHANGED <<fs, vars_pp, heap, all_structures,
                   model, ethanol_frames, DFT_energies, PET_energies, err_true,
                   ethanol_systems, targets, dataset, dataloader, llpr_model,
                   exported_model, ethanol_dataset, lpr, figure, prevLpr>>

\* One iteration of `for structure in all_structures`:
\* structure.calc = calculator; del structure.arrays["momenta"]
MdPostIter ==
    /\ script = "generate" /\ At("md_post_loop")
    /\ loop_i <= Len(all_structures)
    /\ LET ref == all_structures[loop_i] IN
       IF heap[ref].has_momenta
       THEN /\ heap' = [heap EXCEPT ![ref].calc = "calculator",
                                    ![ref].has_momenta = FALSE]
            /\ loop_i' = loop_i + 1
            /\ UNCHANGED vars_run
       ELSE \* KeyError: 'momenta'
            /\ heap' = [heap EXCEPT ![ref].calc = "calculator"]
            /\ Abort
            /\ UNCHANGED <<fs, loop_i>>
    /\ UNCHANGED <<vars_pp, all_structures, dyn,
                   model, ethanol_frames, DFT_energies, PET_energies, err_true,
                   ethanol_systems, targets, dataset, dataloader, llpr_model,
                   exported_model, ethanol_dataset, lpr, figure, prevLpr>>

MdPostEnd ==
    /\ script = "generate" /\ At("md_post_loop")
    /\ loop_i > Len(all_structures)
    /\ Advance
    /\ UNCHANGED <<fs, vars_uq, vars_other>>

\* ase.io.write("water.xyz", all_structures[1:])
MdWrite ==
    /\ script = "generate" /\ At("md_write")
    /\ fs' = [fs EXCEPT ![WaterPath] =
                XyzFile([i \in 1..Len(Written(all_structures)) |->
                           [positions |-> heap[Written(all_structures)[i]].positions,
                            has_momenta |-> heap[Written(all_structures)[i]].has_momenta]])]
    /\ Advance
    /\ UNCHANGED <<vars_uq, vars_other>>

(* ----------------------------- parity_plot.py -------------------------- *)
\* zip(["train", "val", "test"], [idx_train, idx_val, idx_test], [...colors])
SubsetNames == <<"train", "val", "test">>
SubsetArraysSwapped == <<"train", "test", "val">>
SubsetArrays == <<"train", "val", "test">>

\* numpy integer-array indexing arr[ix] with 0-based indices: an index outside
\* -n..n-1 raises IndexError, a negative index counts from the end.
IndexOk(arr, ix) == \A j \in 1..Len(ix) : ix[j] >= -Len(arr) /\ ix[j] < Len(arr)
Take(arr, ix) == [j \in 1..Len(ix) |->
                    arr[(IF ix[j] < 0 THEN ix[j] + Len(arr) ELSE ix[j]) + 1]]

\* targets = ase.io.read("../data/ethanol_reduced_100.xyz", ":")
PpReadTargets ==
    /\ script = "parity_plot" /\ At("pp_read_targets")
    /\ LET f == fs[ParityTargetsPath] IN
       IF f.kind = "xyz"
       THEN /\ targets' = [i \in 1..Len(f.frames) |->
                             [frame |-> i, energy |-> f.frames[i].energy]]
            /\ Advance
       ELSE /\ Abort
            /\ UNCHANGED targets
    /\ UNCHANGED <<fs, vars_other,
                   model, ethanol_frames, DFT_energies, PET_energies, loop_i, err_true,
                   ethanol_systems, dataset, dataloader, llpr_model,
                   exported_model, ethanol_dataset, lpr, figure, prevLpr>>

\* predictions = ase.io.read("./output.xyz", ":")
PpReadPredictions ==
    /\ script = "parity_plot" /\ At("pp_read_predictions")
    /\ LET f == fs[ParityPredictionsPath] IN
       IF f.kind = "xyz"
       THEN /\ predictions' = [i \in 1..Len(f.frames) |->
                                 [frame |-> i, energy |-> f.frames[i].energy]]
            /\ Advance
       ELSE /\ Abort
            /\ UNCHANGED predictions
    /\ UNCHANGED <<fs, vars_uq, vars_md, e_targets, e_predictions, idx, data>>

\* e_targets = np.array([frame.get_total_energy() for frame in targets])
PpETargets ==
    /\ script = "parity_plot" /\ At("pp_e_targets")
    /\ e_targets' = [i \in 1..Len(targets) |->
                       [frame |-> targets[i].frame, value |-> targets[i].energy]]
    /\ Advance
    /\ UNCHANGED <<fs, vars_uq, vars_md, predictions, e_predictions, idx, data>>

\* e_predictions = np.array([frame.get_total_energy() for frame in predictions])
PpEPredictions ==
    /\ script = "parity_plot" /\ At("pp_e_predictions")
    /\ e_predictions' = [i \in 1..Len(predictions) |->
                           [frame |-> predictions[i].frame,
                            value |-> predictions[i].energy]]
    /\ Advance
    /\ UNCHANGED <<fs, vars_uq, vars_md, predictions, e_targets, idx, data>>

\* idx_<subset> = np.loadtxt(<path>, dtype=int)
LoadIdx(step, field, path) ==
    /\ script = "parity_plot" /\ At(step)
    /\ IF fs[path].kind = "txt"
       THEN /\ idx' = [idx EXCEPT ![field] = fs[path].rows]
            /\ Advance
       ELSE /\ Abort
            /\ UNCHANGED idx
    /\ UNCHANGED <<fs, vars_uq, vars_md, predictions, e_targets, e_predictions, data>>

PpLoadTrain == LoadIdx("pp_load_train", "train", TrainIdxPath)
PpLoadVal == LoadIdx("pp_load_val", "val", ValIdxPath)
PpLoadTest == LoadIdx("pp_load_test", "test", TestIdxPath)

\* fig, ax = plt.subplots()
PpSubplots ==
    /\ script = "parity_plot" /\ At("pp_subplots")
    /\ figure' = <<>>
    /\ loop_i' = 1
    /\ Advance
    /\ UNCHANGED <<fs, vars_other,
                   model, ethanol_frames, DFT_energies, PET_energies, err_true,
                   ethanol_systems, targets, dataset, dataloader, llpr_model,
                   exported_model, ethanol_dataset, lpr, prevLpr>>

\* One iteration of the zip loop:
\* ax.scatter(e_targets[idx_subset], e_predictions[idx_subset], ...)
PpScatterIter ==
    /\ script = "parity_plot" /\ At("pp_scatter_loop")
    /\ loop_i <= Len(SubsetNames)
    /\ LET name == SubsetNames[loop_i]
           ix == idx[SubsetArrays[loop_i]]
       IN IF IndexOk(e_targets, ix) /\ IndexOk(e_predictions, ix)
          THEN /\ figure' = figure \o
                     [j \in 1..Len(ix) |->
                        [subset |-> name,
                         x |-> Take(e_targets, ix)[j],
                         y |-> Take(e_predictions, ix)[j]]]
               /\ loop_i' = loop_i + 1
               /\ UNCHANGED vars_run
          ELSE /\ Abort
               /\ UNCHANGED <<fs, figure, loop_i>>
    /\ UNCHANGED <<vars_other,
                   model, ethanol_frames, DFT_energies, PET_energies, err_true,
                   ethanol_systems, targets, dataset, dataloader, llpr_model,
                   exported_model, ethanol_dataset, lpr, prevLpr>>

PpScatterEnd ==
    /\ script = "parity_plot" /\ At("pp_scatter_loop")
    /\ loop_i > Len(SubsetNames)
    /\ Advance
    /\ UNCHANGED <<fs, vars_uq, vars_other>>

\* ax.axline((np.min(e_targets), ...)) ... ax.set_ylim([...]): np.min of an
\* empty array raises; np.array([e_targets, e_predictions]) of two arrays of
\* different lengths raises or builds an object array, depending on the numpy
\* release.
PpDecorate ==
    /\ script = "parity_plot" /\ At("pp_decorate")
    /\ \/ /\ Len(e_targets) > 0
          /\ Advance
       \/ /\ Len(e_targets) = 0 \/ Len(e_targets) # Len(e_predictions)
          /\ Abort
    /\ UNCHANGED <<fs, vars_uq, vars_other>>

\* plt.savefig("parity_plot.png", dpi=200, bbox_inches="tight")
PpSavefig ==
    /\ script = "parity_plot" /\ At("pp_savefig")
    /\ fs' = [fs EXCEPT ![ParityFigurePath] = PngFile(figure)]
    /\ Advance
    /\ UNCHANGED <<vars_uq, vars_other>>

(* ----------------------------- plot_energy.py -------------------------- *)
ThermoColumns == <<1, 2, 3, 4>>   \* the column plotted on axes[k-1]

\* data = np.loadtxt("thermo.out")
PeLoadtxt ==
    /\ script = "plot_energy" /\ At("pe_loadtxt")
    /\ IF fs[ThermoPath].kind = "table"
       THEN /\ data' = [rows |-> fs[ThermoPath].rows, cols |-> fs[ThermoPath].cols]
            /\ Advance
       ELSE /\ Abort
            /\ UNCHANGED data
    /\ UNCHANGED <<fs, vars_uq, vars_md, predictions, e_targets, e_predictions, idx>>

\* fig, axes = plt.subplots(1, 4, figsize=(20, 5))
PeSubplots ==
    /\ script = "plot_energy" /\ At("pe_subplots")
    /\ figure' = <<>>
    /\ loop_i' = 1
    /\ Advance
    /\ UNCHANGED <<fs, vars_other,
                   model, ethanol_frames, DFT_energies, PET_energies, err_true,
                   ethanol_systems, targets, dataset, dataloader, llpr_model,
                   exported_model, ethanol_dataset, lpr, prevLpr>>

\* axes[k-1].plot(data[:, 0], data[:, k], ...): a file of fewer than two rows
\* loads as a one-dimensional array, on which data[:, k] raises; so does a
\* column index past the last column.
PePlotIter ==
    /\ script = "plot_energy" /\ At("pe_plot_loop")
    /\ loop_i <= Len(ThermoColumns)
    /\ IF data.rows >= 2 /\ ThermoColumns[loop_i] < data.cols
       THEN /\ figure' = Append(figure, [axis |-> loop_i - 1, x |-> 0,
                                         y |-> ThermoColumns[loop_i],
                                         rows |-> data.rows])
            /\ loop_i' = loop_i + 1
            /\ UNCHANGED vars_run
       ELSE /\ Abort
            /\ UNCHANGED <<fs, figure, loop_i>>
    /\ UNCHANGED <<vars_other,
                   model, ethanol_frames, DFT_energies, PET_energies, err_true,
                   ethanol_systems, targets, dataset, dataloader, llpr_model,
                   exported_model, ethanol_dataset, lpr, prevLpr>>

PePlotEnd ==
    /\ script = "plot_energy" /\ At("pe_plot_loop")
    /\ loop_i > Len(ThermoColumns)
    /\ Advance
    /\ UNCHANGED <<fs, vars_uq, vars_other>>

\* [ax.legend() for ax in axes]
PeLegend ==
    /\ script = "plot_energy" /\ At("pe_legend")
    /\ Advance
    /\ UNCHANGED <<fs, vars_uq, vars_other>>

\* plt.savefig("thermo.png", bbox_inches="tight", dpi=200)
PeSavefig ==
    /\ script = "plot_energy" /\ At("pe_savefig")
    /\ fs' = [fs EXCEPT ![ThermoFigurePath] = PngFile(figure)]
    /\ Advance
    /\ UNCHANGED <<vars_uq, vars_other>>

(* ------------------------------ optimize.py ---------------------------- *)
MaxOptSteps == 3

\* water = ase.build.molecule('H2O')
OptBuildWater ==
    /\ script = "optimize" /\ At("opt_build_water")
    /\ heap' = <<NewWater>>
    /\ Advance
    /\ UNCHANGED <<fs, vars_uq, vars_pp, all_structures, dyn>>

\* calculator = MetatomicCalculator("pet-mad-latest.pt")
OptMakeCalculator ==
    /\ script = "optimize" /\ At("opt_make_calculator")
    /\ IF fs[PetMadPath].kind = "model" THEN Advance ELSE Abort
    /\ UNCHANGED <<fs, vars_uq, vars_other>>

\* water.calc = calculator
OptSetCalc ==
    /\ script = "optimize" /\ At("opt_set_calc")
    /\ heap' = [heap EXCEPT ![Water].calc = "calculator"]
    /\ Advance
    /\ UNCHANGED <<fs, vars_uq, vars_pp, all_structures, dyn>>

\* optimizer = LBFGS(water)
OptLBFGS ==
    /\ script = "optimize" /\ At("opt_lbfgs")
    /\ dyn' = NoDyn
    /\ Advance
    /\ UNCHANGED <<fs, vars_uq, vars_pp, heap, all_structures>>

\* optimizer.run(fmax=0.01), one iteration that has not converged: the atoms
\* of `water` are moved in place.
OptRunStep ==
    /\ script = "optimize" /\ At("opt_run")
    /\ dyn.nsteps < MaxOptSteps
    /\ dyn' = [dyn EXCEPT !.nsteps = dyn.nsteps + 1]
    /\ heap' = [heap EXCEPT ![Water].positions = dyn.nsteps + 1]
    /\ UNCHANGED <<vars_run, vars_uq, vars_pp, all_structures>>

\* The largest force is below fmax: run() returns.
OptRunConverged ==
    /\ script = "optimize" /\ At("opt_run")
    /\ Advance
    /\ UNCHANGED <<fs, vars_uq, vars_other>>

(* ------------------------------ the system ----------------------------- *)
FrameFiles == {XyzFile(fr) :
                 fr \in SeqsUpTo([geom : Geoms, energy : Energies], MaxFrames)}

InitLLPR ==
    /\ script \in LLPRScripts
    /\ \E mp \in {DefaultModelPath, UserPng, LLPRFigurePath} :
       \E fig \in IF script = "llpr" THEN {LLPRFigurePath}
                  ELSE {DefaultUQFigure, UserPng, DefaultModelPath} :
       \E mf \in {ModelFile(w) : w \in Weights} \cup {Absent} :
       \E xf \in FrameFiles \cup {Absent} :
         /\ args = [model_path |-> mp, output_figure |-> fig]
         /\ fs = [p \in Paths |->
                    IF p = mp THEN mf
                    ELSE IF p = SystemsPath(script) THEN xf
                    ELSE Absent]
    /\ UQInit
    /\ prevLpr = <<>>

OtherInit ==
    /\ heap = <<>>
    /\ all_structures = <<>>
    /\ dyn = NoDyn
    /\ e_targets = <<>>
    /\ e_predictions = <<>>
    /\ predictions = <<>>
    /\ idx = [train |-> <<>>, val |-> <<>>, test |-> <<>>]
    /\ data = [rows |-> 0, cols |-> 0]

InitGenerate ==
    /\ script = "generate"
    /\ args = [model_path |-> "", output_figure |-> ""]
    /\ fs = [p \in Paths |-> Absent]
    /\ UQInit
    /\ prevLpr = <<>>

\* The energy stored with frame i of a target or prediction file.
ParityFrames(n, offset) == [i \in 1..n |-> [geom |-> 1, energy |-> offset + i]]

IdxLens == [train |-> 0..2, val |-> 0..1, test |-> 0..1]
IdxFiles(name, n) == {TxtFile(r) : r \in UNION {[1..k -> -1..n] : k \in IdxLens[name]}}

InitParity ==
    /\ script = "parity_plot"
    /\ args = [model_path |-> "", output_figure |-> ""]
    /\ \E n \in 0..MaxFrames :
       \E np \in {n, IF n > 0 THEN n - 1 ELSE 0} :
       \E tr \in IdxFiles("train", n) :
       \E va \in IdxFiles("val", n) :
       \E te \in IdxFiles("test", n) :
         fs = [p \in Paths |->
                 CASE p = ParityTargetsPath -> XyzFile(ParityFrames(n, 0))
                   [] p = ParityPredictionsPath -> XyzFile(ParityFrames(np, 10))
                   [] p = TrainIdxPath -> tr
                   [] p = ValIdxPath -> va
                   [] p = TestIdxPath -> te
                   [] OTHER -> Absent]
    /\ UQInit
    /\ prevLpr = <<>>

ThermoFiles == {TableFile(r, c) : r \in 0..2, c \in {4, 5}} \cup {Absent}

InitPlotEnergy ==
    /\ script = "plot_energy"
    /\ args = [model_path |-> "", output_figure |-> ""]
    /\ \E tf \in ThermoFiles :
         fs = [p \in Paths |-> IF p = ThermoPath THEN tf ELSE Absent]
    /\ UQInit
    /\ prevLpr = <<>>

InitOptimize ==
    /\ script = "optimize"
    /\ args = [model_path |-> "", output_figure |-> ""]
    /\ \E mf \in {ModelFile(w) : w \in Weights} \cup {Absent} :
         fs = [p \in Paths |-> IF p = PetMadPath THEN mf ELSE Absent]
    /\ UQInit
    /\ prevLpr = <<>>

Init ==
    /\ status = "running"
    /\ pc = 1
    /\ trace = <<>>
    /\ runNo = 1
    /\ OtherInit
    /\ \/ InitLLPR
       \/ InitGenerate
       \/ InitParity
       \/ InitPlotEnergy
       \/ InitOptimize

Next ==
    \/ LoadModel \/ ReadFrames \/ DftEnergies \/ PredictIter \/ PredictEnd
    \/ ErrTrue \/ ReadSystems \/ ReadTargets \/ NeighborLists \/ MakeDataset
    \/ MakeEthanolDataset \/ MakeDataloader \/ Wrap \/ ComputeCovariance
    \/ ComputeInverseCovariance \/ Calibrate \/ Export \/ ToDtype \/ Evaluate
    \/ Plot \/ Savefig \/ Show \/ Raise \/ Rerun
    \/ MdBuildWater \/ MdMakeCalculator \/ MdSetCalc \/ MdLangevin \/ MdAttach
    \/ MdRunStart \/ MdRunStep \/ MdRunEnd \/ MdPostIter \/ MdPostEnd \/ MdWrite
    \/ PpReadTargets \/ PpReadPredictions \/ PpETargets \/ PpEPredictions
    \/ PpLoadTrain \/ PpLoadVal \/ PpLoadTest \/ PpSubplots
    \/ PpScatterIter \/ PpScatterEnd \/ PpDecorate \/ PpSavefig
    \/ PeLoadtxt \/ PeSubplots \/ PePlotIter \/ PePlotEnd \/ PeLegend \/ PeSavefig
    \/ OptBuildWater \/ OptMakeCalculator \/ OptSetCalc \/ OptLBFGS
    \/ OptRunStep \/ OptRunConverged

Spec == Init /\ [][Next]_vars

(* ------------------------------ properties ----------------------------- *)
InTrace(name) == \E i \in 1..Len(trace) : trace[i] = name
Count(name) == Cardinality({i \in 1..Len(trace) : trace[i] = name})
Pos(name) == CHOOSE i \in 1..Len(trace) : trace[i] = name
Before(a, b) == InTrace(b) => (InTrace(a) /\ Pos(a) < Pos(b))

\* Number of frames in the structure file the LLPR script reads.
NFrames == Len(fs[SystemsPath(script)].frames)

\* C1: in llpr.py and uq.py, once the prediction loop has finished,
\* PET_energies holds exactly one entry per frame of the structure file, in
\* file order, and DFT_energies and err_true have that same length N.
C1_PredictedCountEqualsFrames ==
    script \in LLPRScripts =>
      /\ InTrace("predict_loop") =>
           /\ Len(ethanol_frames) = NFrames
           /\ Len(PET_energies) = NFrames
           /\ Len(DFT_energies) = NFrames
           /\ \A i \in 1..NFrames : PET_energies[i].frame = i
      /\ InTrace("err_true") => Len(err_true) = NFrames

C1_Witness ==
    /\ script \in LLPRScripts
    /\ InTrace("err_true")
    /\ Len(PET_energies) = 2
    /\ Len(err_true) = 2

C4_RerunSameUncertainty ==
    (script \in LLPRScripts /\ runNo = 2 /\ InTrace("evaluate")) => lpr = prevLpr

C4_Witness ==
    /\ script \in LLPRScripts
    /\ runNo = 2
    /\ status = "done"
    /\ Len(lpr) = 2
    /\ lpr[1].feat # lpr[2].feat

\* C5: the uncertainty workflow runs load, covariance accumulation, inversion,
\* calibration, evaluation and figure saving in this order, each at most once
\* (exactly once in a completed run), and every uncertainty read comes from a
\* model whose covariance was accumulated, inverted and calibrated.
C5_WorkflowOrder ==
    script \in LLPRScripts =>
      /\ Before("load_model", "compute_covariance")
      /\ Before("compute_covariance", "compute_inverse_covariance")
      /\ Before("compute_inverse_covariance", "calibrate")
      /\ Before("calibrate", "evaluate")
      /\ Before("evaluate", "savefig")
      /\ \A n \in {"load_model", "compute_covariance", "compute_inverse_covariance",
                   "calibrate", "evaluate", "savefig"} :
           /\ Count(n) <= 1
           /\ status = "done" => Count(n) = 1
      /\ InTrace("evaluate") =>
           /\ llpr_model.covariance_computed
           /\ llpr_model.inv_covariance_computed
           /\ llpr_model.is_calibrated
           /\ \A i \in 1..Len(lpr) :
                /\ lpr[i].calibrated
                /\ lpr[i].inv = llpr_model.inv_covariance
                /\ lpr[i].inv.regularizer = Regularizer(script)
      /\ ~InTrace("evaluate") => lpr = <<>>

C5_Witness ==
    /\ script = "uq"
    /\ status = "done"
    /\ Len(lpr) = 2

\* The statement that writes the script's output file, and the file.
WriteStep(s) == CASE s \in LLPRScripts -> "savefig"
                  [] s = "generate" -> "md_write"
                  [] s = "parity_plot" -> "pp_savefig"
                  [] s = "plot_energy" -> "pe_savefig"
                  [] OTHER -> "none"
OutputPath(s) == CASE s \in LLPRScripts -> args.output_figure
                   [] s = "generate" -> WaterPath
                   [] s = "parity_plot" -> ParityFigurePath
                   [] s = "plot_energy" -> ThermoFigurePath
                   [] OTHER -> WaterPath

\* C6 as stated: whenever a script has failed, its output file has not been
\* written (the write being the last step of each script).
C6_FailedMeansNoOutput ==
    status = "failed" => ~InTrace(WriteStep(script))

\* C6 as amended: a failure ends the script at the failing statement (nothing
\* runs afterwards, the statements before it ran once each, in order), and
\* the output file has not been written unless the script is llpr.py and the
\* failing statement is plt.show(), which follows plt.savefig there.
C6_FailureTerminates ==
    status = "failed" =>
      /\ ~ENABLED Next
      /\ pc <= Len(Steps(script))
      /\ trace = SubSeq(Steps(script), 1, pc - 1)
      /\ InTrace(WriteStep(script)) =>
           (script = "llpr" /\ Steps(script)[pc] = "show")
      /\ (~InTrace(WriteStep(script)) /\ runNo = 1
          /\ (script \in LLPRScripts => args.output_figure # args.model_path)) =>
           fs[OutputPath(script)] = Absent

C6_Witness ==
    /\ status = "failed"
    /\ script = "uq"
    /\ Steps(script)[pc] = "savefig"
    /\ Len(figure) = 2
    /\ fs[args.output_figure] = Absent

\* C7 as stated: no step of llpr.py or uq.py changes the file at model_path,
\* whatever the command line.
C7_ModelFileNeverChanges ==
    [][(script \in LLPRScripts) => (fs'[args.model_path] = fs[args.model_path])]_vars

\* C7 as amended: the only file a run of llpr.py or uq.py writes is the figure,
\* written by savefig at the figure path; the file at model_path is therefore
\* unchanged whenever the figure path is not model_path.
C7_ModelFileUnchangedUnlessFigurePath ==
    [][(script \in LLPRScripts) =>
         /\ args.output_figure # args.model_path =>
              fs'[args.model_path] = fs[args.model_path]
         /\ fs' # fs =>
              /\ At("savefig")
              /\ \A p \in Paths \ {args.output_figure} : fs'[p] = fs[p]
              /\ fs'[args.output_figure].kind = "png"
      ]_vars

C7_Witness ==
    /\ script = "uq"
    /\ status = "done"
    /\ args.output_figure # args.model_path
    /\ args.output_figure = UserPng
    /\ fs[args.model_path].kind = "model"
    /\ fs[args.output_figure].kind = "png"
    /\ Len(lpr) = 2

\* Index arrays of parity_plot.py, as 0-based positions after numpy's
\* wrap-around of negative indices.
NormIdxIn(name, arr) == [j \in 1..Len(idx[name]) |->
                           IF idx[name][j] < 0 THEN idx[name][j] + Len(arr)
                           ELSE idx[name][j]]
NormIdx(name) == NormIdxIn(name, e_targets)
IdxSet(name) == {NormIdx(name)[j] : j \in 1..Len(idx[name])}
IdxPartition ==
    /\ \A n \in {"train", "val", "test"} :
         Cardinality(IdxSet(n)) = Len(idx[n])
    /\ IdxSet("train") \cap IdxSet("val") = {}
    /\ IdxSet("train") \cap IdxSet("test") = {}
    /\ IdxSet("val") \cap IdxSet("test") = {}
    /\ IdxSet("train") \cup IdxSet("val") \cup IdxSet("test")
         = 0..(Len(e_targets) - 1)
PlottedCount(k) == Cardinality({j \in 1..Len(figure) : figure[j].x.frame = k})

\* C3 as stated: once the three index files are loaded they are pairwise
\* disjoint and cover 0..len(targets)-1, and a finished run has plotted every
\* target frame exactly once.
C3_IndexArraysPartition ==
    script = "parity_plot" =>
      /\ InTrace("pp_load_test") => IdxPartition
      /\ InTrace("pp_scatter_loop") =>
           \A k \in 1..Len(e_targets) : PlottedCount(k) = 1

\* C3 as amended: the script plots, for each subset in the order train, val,
\* test, exactly the (target, prediction) pairs at that subset's indices (a
\* negative index counting from the end of each array), the two of a pair
\* coming from the same frame when targets and predictions have equal length;
\* every target frame is plotted exactly once precisely when the three index
\* arrays partition 0..len(targets)-1, which the script does not check.
C3_PlotsIndexedFrames ==
    (script = "parity_plot" /\ InTrace("pp_scatter_loop")) =>
      /\ \A n \in {"train", "val", "test"} :
           LET IsN(pt) == pt.subset = n
               pts == SelectSeq(figure, IsN)
           IN /\ Len(pts) = Len(idx[n])
              /\ \A j \in 1..Len(pts) :
                   /\ pts[j].x.frame = NormIdx(n)[j] + 1
                   /\ pts[j].y.frame = NormIdxIn(n, e_predictions)[j] + 1
                   /\ Len(e_targets) = Len(e_predictions) =>
                        pts[j].x.frame = pts[j].y.frame
      /\ \A i, j \in 1..Len(figure) :
           (i < j /\ figure[i].subset # figure[j].subset) =>
             <<figure[i].subset, figure[j].subset>> \in
               {<<"train", "val">>, <<"train", "test">>, <<"val", "test">>}
      /\ IdxPartition <=> (\A k \in 1..Len(e_targets) : PlottedCount(k) = 1)

C3_Witness ==
    /\ script = "parity_plot"
    /\ status = "done"
    /\ Len(e_targets) = 2
    /\ IdxPartition
    /\ Len(idx["train"]) = 1
    /\ Len(idx["test"]) = 1
    /\ fs[ParityFigurePath].kind = "png"

\* C9: generate.py takes 11 snapshots (step 0 and every 1000th step of the
\* 10000-step run), drops the first, and writes the 10 snapshots of steps
\* 1000, 2000, ..., 10000 to water.xyz in that order.
C9_WritesTenFrames ==
    script = "generate" =>
      /\ (At("md_run") /\ dyn.running) =>
           Len(all_structures) = (dyn.nsteps \div 1000) + 1
      /\ InTrace("md_run") =>
           /\ dyn.nsteps = 10000
           /\ Len(all_structures) = 11
           /\ heap[all_structures[1]].positions = 0
      /\ status = "done" =>
           /\ fs[WaterPath].kind = "xyz"
           /\ Len(fs[WaterPath].frames) = 10
           /\ \A i \in 1..10 : fs[WaterPath].frames[i].positions = 1000 * i

C9_Witness ==
    /\ script = "generate"
    /\ status = "done"
    /\ Len(fs[WaterPath].frames) = 10

\* C10: every recorded snapshot is an object of its own: it is neither the live
\* water object nor another snapshot, it keeps the positions of the step at
\* which it was taken while the dynamics moves on, and the post-run loop
\* changes only the snapshot it is visiting (never the live object, never a
\* snapshot not yet visited).
C10_SnapshotsIndependent ==
    script = "generate" =>
      /\ \A i \in 1..Len(all_structures) :
           /\ all_structures[i] # Water
           /\ \A j \in 1..Len(all_structures) :
                i # j => all_structures[i] # all_structures[j]
           /\ heap[all_structures[i]].positions = 1000 * (i - 1)
           /\ (At("md_post_loop") /\ i >= loop_i) =>
                (heap[all_structures[i]].has_momenta
                 /\ heap[all_structures[i]].calc = "none")
           /\ ((At("md_post_loop") /\ i < loop_i) \/ InTrace("md_post_loop")) =>
                (~heap[all_structures[i]].has_momenta
                 /\ heap[all_structures[i]].calc = "calculator")
      /\ InTrace("md_run") =>
           /\ heap[Water].positions = 10000
           /\ heap[Water].has_momenta
           /\ heap[Water].calc = "calculator"

C10_Witness ==
    /\ script = "generate"
    /\ At("md_post_loop")
    /\ loop_i = 5
    /\ Len(all_structures) = 11
    /\ heap[Water].positions = 10000
====
